---------------------------- MODULE Spec2Model ----------------------------
(***************************************************************************)
(* Model of eve-rs src/app.rs: the per-method route table of App, the      *)
(* registration operations, sub-application mounting and the chained       *)
(* execution of the middleware stack (chained_run / resolve).              *)
(*                                                                         *)
(* Strings (paths, path specs, response bodies) are sequences of           *)
(* one-character strings, so that strip_suffix, starts_with and format!    *)
(* are computed character by character as the code computes them.          *)
(***************************************************************************)
EXTENDS Naturals, Sequences, FiniteSets, TLC

VARIABLES
    app,        \* the parent App: nine stacks, state, error_handler
    regs,       \* number of setup calls (&mut self) made on the parent so far
    last,       \* history: the last setup call, its inputs and the App before it
    request,    \* history: method and path of the context given to resolve
    pc,         \* "idle" | "handler" | "resumed" | "done": position of the dispatch
    nodes,      \* the Arc<Vec<MiddlewareHandler>> resolve handed to chained_run
    depth,      \* number of chained_run frames whose handler is on the call stack
    context,    \* the TContext owned by the handler on top of the call stack
    ret,        \* the Result the continuation handed back to the resumed handler
    log,        \* history: events of the current dispatch, in order
    other       \* a second resolve future, not being polled: its request, pc,
                \* nodes, depth, context, ret and log

vars == <<app, regs, last, request, pc, nodes, depth, context, ret, log, other>>

----------------------------------------------------------------------------
(* Bounds of the model                                                     *)

MaxRegs == 2          \* setup calls on the parent
MaxHandlers == 2      \* handlers passed to one registration call
MaxBaseLen == 3       \* characters of a base path given to use_sub_app

----------------------------------------------------------------------------
(* Strings                                                                 *)

Slash == "/"
Colon == ":"

starts_with(s, c) == Len(s) > 0 /\ s[1] = c

ends_with(s, c) == Len(s) > 0 /\ s[Len(s)] = c

\* str::strip_suffix: the string without the suffix; only used when it ends with c.
strip_suffix(s, c) == SubSeq(s, 1, Len(s) - 1)

\* All strings over alphabet A of length at most n.
StringsUpTo(A, n) == UNION {[1..k -> A] : k \in 0..n}

----------------------------------------------------------------------------
(* HttpMethod                                                              *)

HttpMethod == {"Get", "Post", "Put", "Delete", "Head", "Options", "Connect",
               "Patch", "Trace"}

\* Display form of a method, used in the not-found message.
method_to_string(m) ==
    CASE m = "Get"     -> <<"G", "E", "T">>
      [] m = "Post"    -> <<"P", "O", "S", "T">>
      [] m = "Put"     -> <<"P", "U", "T">>
      [] m = "Delete"  -> <<"D", "E", "L", "E", "T", "E">>
      [] m = "Head"    -> <<"H", "E", "A", "D">>
      [] m = "Options" -> <<"O", "P", "T", "I", "O", "N", "S">>
      [] m = "Connect" -> <<"C", "O", "N", "N", "E", "C", "T">>
      [] m = "Patch"   -> <<"P", "A", "T", "C", "H">>
      [] m = "Trace"   -> <<"T", "R", "A", "C", "E">>

----------------------------------------------------------------------------
(* Path patterns (MiddlewareHandler::path_match)                           *)

\* Positions of the separators of s, and the segments between them.
SlashPositions(s) == {k \in 1..Len(s) : s[k] = Slash}

RECURSIVE SplitFrom(_, _)
SplitFrom(s, from) ==
    LET later == {k \in SlashPositions(s) : k >= from}
    IN  IF later = {}
        THEN <<SubSeq(s, from, Len(s))>>
        ELSE LET k == CHOOSE x \in later : \A y \in later : x <= y
             IN  <<SubSeq(s, from, k - 1)>> \o SplitFrom(s, k + 1)

Segments(s) == SplitFrom(s, 1)

IsCapture(seg) == Len(seg) > 1 /\ seg[1] = Colon

CaptureName(seg) == SubSeq(seg, 2, Len(seg))

\* A segment of the pattern matches a segment of the path: a capture takes any
\* non-empty segment, a literal only itself.
SegmentMatches(pseg, seg) ==
    IF IsCapture(pseg) THEN Len(seg) > 0 ELSE pseg = seg

\* Regex::is_match of the compiled path spec: same shape, segment by segment.
PatternMatches(spec, path) ==
    LET ps == Segments(spec)
        ss == Segments(path)
    IN  /\ Len(ps) = Len(ss)
        /\ \A k \in 1..Len(ps) : SegmentMatches(ps[k], ss[k])

\* Regex::capture_names: the names of the captures of the pattern.
capture_names(spec) ==
    {CaptureName(Segments(spec)[k]) :
        k \in {j \in 1..Len(Segments(spec)) : IsCapture(Segments(spec)[j])}}

\* Regex::captures(..).name(var): the segment of the path at the capture var.
capture_value(spec, path, var) ==
    LET ps == Segments(spec)
        k  == CHOOSE j \in 1..Len(ps) : IsCapture(ps[j]) /\ CaptureName(ps[j]) = var
    IN  Segments(path)[k]

----------------------------------------------------------------------------
(* MiddlewareHandler                                                       *)

MiddlewareHandler_new(path, handler, is_endpoint) ==
    [mounted_url |-> path, handler |-> handler, is_endpoint |-> is_endpoint]

is_match(m, path) == PatternMatches(m.mounted_url, path)

----------------------------------------------------------------------------
(* App: construction and registration                                      *)

None == "None"

create(state) ==
    [state         |-> state,
     error_handler |-> None,
     get_stack     |-> <<>>,
     post_stack    |-> <<>>,
     put_stack     |-> <<>>,
     delete_stack  |-> <<>>,
     head_stack    |-> <<>>,
     options_stack |-> <<>>,
     connect_stack |-> <<>>,
     patch_stack   |-> <<>>,
     trace_stack   |-> <<>>]

set_error_handler(self, error_handler) ==
    [self EXCEPT !.error_handler = error_handler]

remove_error_handler(self) ==
    [self EXCEPT !.error_handler = None]

\* Mutant: the new entries are put in front of the ones already there.
PushEachFront(stack, path, middlewares, is_endpoint) ==
    [k \in 1..Len(middlewares) |->
        MiddlewareHandler_new(path, middlewares[k], is_endpoint)] \o stack

\* middlewares.iter().for_each(|handler| stack.push(MiddlewareHandler::new(..)))
PushEach(stack, path, middlewares, is_endpoint) ==
    stack \o [k \in 1..Len(middlewares) |->
                 MiddlewareHandler_new(path, middlewares[k], is_endpoint)]

\* Mutant: get that registers under GET alone.
get_no_mirror(self, path, middlewares) ==
    [self EXCEPT !.get_stack = PushEach(@, path, middlewares, TRUE)]

get(self, path, middlewares) ==
    [self EXCEPT !.get_stack   = PushEach(@, path, middlewares, TRUE),
                 !.trace_stack = PushEach(@, path, middlewares, TRUE)]

\* Mutant: post that registers under GET as well.
post_and_get(self, path, middlewares) ==
    [self EXCEPT !.post_stack = PushEach(@, path, middlewares, TRUE),
                 !.get_stack  = PushEach(@, path, middlewares, TRUE)]

post(self, path, middlewares) ==
    [self EXCEPT !.post_stack = PushEach(@, path, middlewares, TRUE)]

put(self, path, middlewares) ==
    [self EXCEPT !.put_stack = PushEach(@, path, middlewares, TRUE)]

delete(self, path, middlewares) ==
    [self EXCEPT !.delete_stack = PushEach(@, path, middlewares, TRUE)]

head(self, path, middlewares) ==
    [self EXCEPT !.head_stack = PushEach(@, path, middlewares, TRUE)]

options(self, path, middlewares) ==
    [self EXCEPT !.options_stack = PushEach(@, path, middlewares, TRUE)]

connect(self, path, middlewares) ==
    [self EXCEPT !.connect_stack = PushEach(@, path, middlewares, TRUE)]

patch(self, path, middlewares) ==
    [self EXCEPT !.patch_stack = PushEach(@, path, middlewares, TRUE)]

trace(self, path, middlewares) ==
    [self EXCEPT !.trace_stack = PushEach(@, path, middlewares, TRUE)]

\* Mutant: use_middleware that forgets the TRACE stack.
use_middleware_skip_trace(self, path, middlewares) ==
    [self EXCEPT !.get_stack     = PushEach(@, path, middlewares, FALSE),
                 !.post_stack    = PushEach(@, path, middlewares, FALSE),
                 !.put_stack     = PushEach(@, path, middlewares, FALSE),
                 !.delete_stack  = PushEach(@, path, middlewares, FALSE),
                 !.head_stack    = PushEach(@, path, middlewares, FALSE),
                 !.options_stack = PushEach(@, path, middlewares, FALSE),
                 !.connect_stack = PushEach(@, path, middlewares, FALSE),
                 !.patch_stack   = PushEach(@, path, middlewares, FALSE)]

use_middleware(self, path, middlewares) ==
    [self EXCEPT !.get_stack     = PushEach(@, path, middlewares, FALSE),
                 !.post_stack    = PushEach(@, path, middlewares, FALSE),
                 !.put_stack     = PushEach(@, path, middlewares, FALSE),
                 !.delete_stack  = PushEach(@, path, middlewares, FALSE),
                 !.head_stack    = PushEach(@, path, middlewares, FALSE),
                 !.options_stack = PushEach(@, path, middlewares, FALSE),
                 !.connect_stack = PushEach(@, path, middlewares, FALSE),
                 !.patch_stack   = PushEach(@, path, middlewares, FALSE),
                 !.trace_stack   = PushEach(@, path, middlewares, FALSE)]

----------------------------------------------------------------------------
(* App::use_sub_app                                                        *)

\* The block that shadows base_path: "/" becomes "", otherwise a trailing "/"
\* is stripped into formatted_base_path, and then, when base_path has no
\* leading "/", formatted_base_path is rebuilt from base_path itself.
formatted_base_path(base_path) ==
    IF base_path = <<Slash>>
    THEN <<>>
    ELSE LET stripped == IF ends_with(base_path, Slash)
                         THEN strip_suffix(base_path, Slash)
                         ELSE base_path
         IN  IF ~starts_with(base_path, Slash)
             THEN <<Slash>> \o base_path
             ELSE stripped

\* Mutant: the mounted entries are all marked as endpoints.
ExtendMountedAsEndpoints(stack, base_path, sub_stack) ==
    stack \o [k \in 1..Len(sub_stack) |->
                 MiddlewareHandler_new(base_path \o sub_stack[k].mounted_url,
                                       sub_stack[k].handler, TRUE)]

\* stack.extend(sub_stack.into_iter().map(|handler| MiddlewareHandler::new(
\*     &format!("{}{}", base_path, handler.mounted_url), handler.handler,
\*     handler.is_endpoint)))
ExtendMounted(stack, base_path, sub_stack) ==
    stack \o [k \in 1..Len(sub_stack) |->
                 MiddlewareHandler_new(base_path \o sub_stack[k].mounted_url,
                                       sub_stack[k].handler,
                                       sub_stack[k].is_endpoint)]

\* Mutant: the mounted entries are put in front of the parent's own.
use_sub_app_front(self, base_path, sub_app) ==
    LET bp == formatted_base_path(base_path)
    IN  [self EXCEPT
            !.get_stack     = ExtendMounted(<<>>, bp, sub_app.get_stack) \o @,
            !.post_stack    = ExtendMounted(<<>>, bp, sub_app.post_stack) \o @,
            !.put_stack     = ExtendMounted(<<>>, bp, sub_app.put_stack) \o @,
            !.delete_stack  = ExtendMounted(<<>>, bp, sub_app.delete_stack) \o @,
            !.head_stack    = ExtendMounted(<<>>, bp, sub_app.head_stack) \o @,
            !.options_stack = ExtendMounted(<<>>, bp, sub_app.options_stack) \o @,
            !.connect_stack = ExtendMounted(<<>>, bp, sub_app.connect_stack) \o @,
            !.patch_stack   = ExtendMounted(<<>>, bp, sub_app.patch_stack) \o @,
            !.trace_stack   = ExtendMounted(<<>>, bp, sub_app.trace_stack) \o @]

\* Mutant: the parent takes over the error handler of the sub-application
\* when that has one.
use_sub_app_adopting(self, base_path, sub_app) ==
    LET bp == formatted_base_path(base_path)
    IN  [self EXCEPT
            !.error_handler = IF sub_app.error_handler # None
                              THEN sub_app.error_handler
                              ELSE @,
            !.get_stack     = ExtendMounted(@, bp, sub_app.get_stack),
            !.post_stack    = ExtendMounted(@, bp, sub_app.post_stack),
            !.put_stack     = ExtendMounted(@, bp, sub_app.put_stack),
            !.delete_stack  = ExtendMounted(@, bp, sub_app.delete_stack),
            !.head_stack    = ExtendMounted(@, bp, sub_app.head_stack),
            !.options_stack = ExtendMounted(@, bp, sub_app.options_stack),
            !.connect_stack = ExtendMounted(@, bp, sub_app.connect_stack),
            !.patch_stack   = ExtendMounted(@, bp, sub_app.patch_stack),
            !.trace_stack   = ExtendMounted(@, bp, sub_app.trace_stack)]

use_sub_app(self, base_path, sub_app) ==
    LET bp == formatted_base_path(base_path)
    IN  [self EXCEPT
            !.get_stack     = ExtendMounted(@, bp, sub_app.get_stack),
            !.post_stack    = ExtendMounted(@, bp, sub_app.post_stack),
            !.put_stack     = ExtendMounted(@, bp, sub_app.put_stack),
            !.delete_stack  = ExtendMounted(@, bp, sub_app.delete_stack),
            !.head_stack    = ExtendMounted(@, bp, sub_app.head_stack),
            !.options_stack = ExtendMounted(@, bp, sub_app.options_stack),
            !.connect_stack = ExtendMounted(@, bp, sub_app.connect_stack),
            !.patch_stack   = ExtendMounted(@, bp, sub_app.patch_stack),
            !.trace_stack   = ExtendMounted(@, bp, sub_app.trace_stack)]

----------------------------------------------------------------------------
(* App::get_middleware_stack                                               *)

\* match method { HttpMethod::Get => &self.get_stack, ... }
route_stack(self, method) ==
    CASE method = "Get"     -> self.get_stack
      [] method = "Post"    -> self.post_stack
      [] method = "Put"     -> self.put_stack
      [] method = "Delete"  -> self.delete_stack
      [] method = "Head"    -> self.head_stack
      [] method = "Options" -> self.options_stack
      [] method = "Connect" -> self.connect_stack
      [] method = "Patch"   -> self.patch_stack
      [] method = "Trace"   -> self.trace_stack

\* for handler in route_stack { if handler.is_match(&path) { stack.push(..) } }
RECURSIVE PushMatching(_, _, _)
PushMatching(stack, rest, path) ==
    IF rest = <<>>
    THEN stack
    ELSE PushMatching(IF is_match(Head(rest), path)
                      THEN Append(stack, Head(rest))
                      ELSE stack,
                      Tail(rest), path)

\* Mutant: the matching entries are collected newest first.
RECURSIVE InsertMatching(_, _, _)
InsertMatching(stack, rest, path) ==
    IF rest = <<>>
    THEN stack
    ELSE InsertMatching(IF is_match(Head(rest), path)
                        THEN <<Head(rest)>> \o stack
                        ELSE stack,
                        Tail(rest), path)

get_middleware_stack_reversed(self, method, path) ==
    InsertMatching(<<>>, route_stack(self, method), path)

get_middleware_stack(self, method, path) ==
    PushMatching(<<>>, route_stack(self, method), path)

----------------------------------------------------------------------------
(* Context, Result and the not-found response                              *)

EmptyParams == [k \in {} |-> <<>>]

\* HashMap::insert
insert(map, key, value) ==
    [k \in (DOMAIN map) \cup {key} |-> IF k = key THEN value ELSE map[k]]

Unset == 0

\* The context the context_generator builds for a request: nothing injected
\* yet, no response set.
generate_context(method, path) ==
    [method |-> method, path |-> path, params |-> EmptyParams,
     status |-> Unset, body |-> <<>>]

Ok(ctx) == [ok |-> TRUE, context |-> ctx]

Err(e) == [ok |-> FALSE, error |-> e]

\* format!("Cannot {} route {}", method, path)
CannotRoute(method, path) ==
    <<"C", "a", "n", "n", "o", "t", " ">> \o method
        \o <<" ", "r", "o", "u", "t", "e", " ">> \o path

----------------------------------------------------------------------------
(* chained_run                                                             *)

\* The loop over m.path_match.capture_names() that fills url_params.
RECURSIVE InsertCaptures(_, _, _, _)
InsertCaptures(url_params, names, spec, path) ==
    IF names = {}
    THEN url_params
    ELSE LET var == CHOOSE n \in names : TRUE
         IN  InsertCaptures(insert(url_params, var, capture_value(spec, path, var)),
                            names \ {var}, spec, path)

\* let mut url_params = HashMap::new(); if let Some(captures) = ... { ... }
url_params(m, path) ==
    IF PatternMatches(m.mounted_url, path)
    THEN InsertCaptures(EmptyParams, capture_names(m.mounted_url),
                        m.mounted_url, path)
    ELSE EmptyParams

\* Mutant: running out of handlers is reported as a failure.
not_found_err(ctx) == Err("not found")

\* Mutant: the fallback leaves a response that is already set as it is.
not_found_keep(ctx) ==
    IF ctx.status = Unset
    THEN Ok([ctx EXCEPT !.status = 404,
                        !.body = CannotRoute(method_to_string(ctx.method), ctx.path)])
    ELSE Ok(ctx)

\* The else branch: status(404), body("Cannot {} route {}"), Ok(context).
not_found(ctx) ==
    Ok([ctx EXCEPT !.status = 404,
                   !.body = CannotRoute(method_to_string(ctx.method), ctx.path)])

\* Mutant: the captures are merged into the parameters already there, and a
\* name already present keeps its value.
chained_run_merge_params(ctx, stack, i) ==
    IF i < Len(stack)
    THEN LET new == url_params(stack[i + 1], ctx.path)
             old == ctx.params
         IN  [invoke  |-> TRUE,
              i       |-> i,
              context |-> [ctx EXCEPT !.params =
                              [k \in (DOMAIN old) \cup (DOMAIN new) |->
                                  IF k \in DOMAIN old THEN old[k] ELSE new[k]]]]
    ELSE [invoke  |-> FALSE,
          i       |-> i,
          result  |-> not_found(ctx)]

\* Mutant: the parameters are replaced only when the entry captures something.
chained_run_keep_params(ctx, stack, i) ==
    IF i < Len(stack)
    THEN LET new == url_params(stack[i + 1], ctx.path)
         IN  [invoke  |-> TRUE,
              i       |-> i,
              context |-> [ctx EXCEPT !.params =
                              IF new = EmptyParams THEN @ ELSE new]]
    ELSE [invoke  |-> FALSE,
          i       |-> i,
          result  |-> not_found(ctx)]

\* Mutant: an entry is run only if its pattern matches the path the context
\* has now; the walk ends at the first one that does not.
chained_run_refilter(ctx, stack, i) ==
    IF i < Len(stack) /\ is_match(stack[i + 1], ctx.path)
    THEN [invoke  |-> TRUE,
          i       |-> i,
          context |-> [ctx EXCEPT !.params = url_params(stack[i + 1], ctx.path)]]
    ELSE [invoke  |-> FALSE,
          i       |-> i,
          result  |-> not_found(ctx)]

\* One call chained_run(context, nodes, i), i counted from 0, up to the point
\* where it either hands the context to handler i or returns the fallback.
chained_run(ctx, stack, i) ==
    IF i < Len(stack)
    THEN [invoke  |-> TRUE,
          i       |-> i,
          context |-> [ctx EXCEPT !.params = url_params(stack[i + 1], ctx.path)]]
    ELSE [invoke  |-> FALSE,
          i       |-> i,
          result  |-> not_found(ctx)]

\* Mutant: a failure of the handler is answered with the not-found response.
run_middleware_await_swallow(handler_result) ==
    IF handler_result.ok
    THEN handler_result
    ELSE Ok([status |-> 404, body |-> <<>>])

\* m.handler.run_middleware(context, next).await as the tail expression: the
\* value of chained_run(.., i) is the value handler i returned.
run_middleware_await(handler_result) == handler_result

----------------------------------------------------------------------------
(* Inputs                                                                  *)

Str_x   == <<"/", "x">>            \* "/x"
Str_i   == <<"/", ":", "i">>       \* "/:i"
Str_y   == <<"/", "y">>            \* "/y"
Str_ax  == <<"/", "a", "/", "x">>  \* "/a/x"
Str_a   == <<"a">>                 \* "a"
Str_root == <<"/">>                \* "/"

\* Handlers are named by number; a registration call is given the first n.
Handlers == 1..MaxHandlers

HandlerLists == {[k \in 1..n |-> k] : n \in 0..MaxHandlers}

RoutePaths == {Str_x, Str_i}

RequestPaths == {Str_x, Str_y, Str_ax}

ErrorHandlers == {"f1", "f2"}

ParentState == "s0"

SubAppState == "s1"

\* Base paths given to use_sub_app while requests are also dispatched.
MountPaths == {Str_root, Str_a}

\* Every base path of at most MaxBaseLen characters over "/" and "a".
BasePaths == StringsUpTo({Slash, "a"}, MaxBaseLen)

\* Sub-applications: a fresh App after one or two setup calls of its own.
SubApps ==
    {create(SubAppState)}
    \cup {get(create(SubAppState), p, hs) :
             p \in RoutePaths, hs \in {h \in HandlerLists : Len(h) = MaxHandlers}}
    \cup {get(use_middleware(create(SubAppState), Str_x, <<1>>), Str_i, <<MaxHandlers>>)}
    \cup {set_error_handler(post(create(SubAppState), Str_x, <<1>>), "f2")}

----------------------------------------------------------------------------
(* State                                                                   *)

NoRequest == [method |-> None, path |-> <<>>]

NoContext == [method |-> None, path |-> <<>>, params |-> EmptyParams,
              status |-> Unset, body |-> <<>>]

\* What ret holds while no chained_run call has returned.
NoResult == [pending |-> TRUE]

\* A resolve future that does not exist (none was made, or it was dropped).
IdleWalk == [request |-> NoRequest, pc |-> "idle", nodes |-> <<>>, depth |-> 0,
             context |-> NoContext, ret |-> NoResult, log |-> <<>>]

NoCall == [op |-> "create", path |-> <<>>, middlewares |-> <<>>,
           base_path |-> <<>>, sub_app |-> None, error_handler |-> None,
           before |-> None]

Init ==
    /\ app = create(ParentState)
    /\ regs = 0
    /\ last = NoCall
    /\ request = NoRequest
    /\ pc = "idle"
    /\ nodes = <<>>
    /\ depth = 0
    /\ context = NoContext
    /\ ret = NoResult
    /\ log = <<>>
    /\ other = IdleWalk

dispatch_vars == <<request, pc, nodes, depth, context, ret, log>>

\* A setup call takes &mut self: no resolve future borrows the App.
CanSetup == pc = "idle" /\ other.pc = "idle" /\ regs < MaxRegs

Called(op, path, middlewares, base_path, sub_app, error_handler) ==
    /\ regs' = regs + 1
    /\ last' = [op |-> op, path |-> path, middlewares |-> middlewares,
                base_path |-> base_path, sub_app |-> sub_app,
                error_handler |-> error_handler, before |-> app]
    /\ UNCHANGED dispatch_vars
    /\ UNCHANGED other

----------------------------------------------------------------------------
(* Setup calls                                                             *)

CallGet(path, middlewares) ==
    /\ CanSetup
    /\ app' = get(app, path, middlewares)
    /\ Called("get", path, middlewares, <<>>, None, None)

CallPost(path, middlewares) ==
    /\ CanSetup
    /\ app' = post(app, path, middlewares)
    /\ Called("post", path, middlewares, <<>>, None, None)

CallPut(path, middlewares) ==
    /\ CanSetup
    /\ app' = put(app, path, middlewares)
    /\ Called("put", path, middlewares, <<>>, None, None)

CallDelete(path, middlewares) ==
    /\ CanSetup
    /\ app' = delete(app, path, middlewares)
    /\ Called("delete", path, middlewares, <<>>, None, None)

CallHead(path, middlewares) ==
    /\ CanSetup
    /\ app' = head(app, path, middlewares)
    /\ Called("head", path, middlewares, <<>>, None, None)

CallOptions(path, middlewares) ==
    /\ CanSetup
    /\ app' = options(app, path, middlewares)
    /\ Called("options", path, middlewares, <<>>, None, None)

CallConnect(path, middlewares) ==
    /\ CanSetup
    /\ app' = connect(app, path, middlewares)
    /\ Called("connect", path, middlewares, <<>>, None, None)

CallPatch(path, middlewares) ==
    /\ CanSetup
    /\ app' = patch(app, path, middlewares)
    /\ Called("patch", path, middlewares, <<>>, None, None)

CallTrace(path, middlewares) ==
    /\ CanSetup
    /\ app' = trace(app, path, middlewares)
    /\ Called("trace", path, middlewares, <<>>, None, None)

CallUseMiddleware(path, middlewares) ==
    /\ CanSetup
    /\ app' = use_middleware(app, path, middlewares)
    /\ Called("use_middleware", path, middlewares, <<>>, None, None)

CallUseSubApp(base_path, sub_app) ==
    /\ CanSetup
    /\ app' = use_sub_app(app, base_path, sub_app)
    /\ Called("use_sub_app", <<>>, <<>>, base_path, sub_app, None)

CallSetErrorHandler(error_handler) ==
    /\ CanSetup
    /\ app' = set_error_handler(app, error_handler)
    /\ Called("set_error_handler", <<>>, <<>>, <<>>, None, error_handler)

CallRemoveErrorHandler ==
    /\ CanSetup
    /\ app' = remove_error_handler(app)
    /\ Called("remove_error_handler", <<>>, <<>>, <<>>, None, None)

----------------------------------------------------------------------------
(* Handlers (the Middleware capability, supplied by the host)              *)

Str_ok == <<"o", "k">>

Str_z == <<"z">>

RewritePath == Str_y

RewriteMethod == "Put"

\* Parameters a handler may have written into the request itself.
JunkParams == insert(insert(EmptyParams, <<"i">>, Str_z), <<"j">>, Str_z)

respond(ctx) == [ctx EXCEPT !.status = 200, !.body = Str_ok]

\* What a handler may have done to its context before it hands it to next.
ContinueEdits(ctx) ==
    {ctx, respond(ctx), [ctx EXCEPT !.path = RewritePath],
     [ctx EXCEPT !.params = JunkParams], [ctx EXCEPT !.method = RewriteMethod]}

\* What a handler may return without calling next.
DirectResults(ctx) == {Ok(respond(ctx)), Err("e1")}

\* What a handler may return once next has returned r to it.
ResumedResults(r) == {r, Err("e2")}

----------------------------------------------------------------------------
(* Dispatch                                                                *)

\* Events of a dispatch: handler i was invoked; handler i called its
\* continuation; the fallback branch ran at index i on ctx; handler i returned
\* result and chained_run(.., i) returned value.
Event(ev, i, called_next, ctx, result, value) ==
    [ev |-> ev, i |-> i, called_next |-> called_next, context |-> ctx,
     result |-> result, value |-> value]

Invoked(i) == Event("invoke", i, FALSE, NoContext, NoResult, NoResult)

Continued(i) == Event("next", i, TRUE, NoContext, NoResult, NoResult)

Fallback(i, ctx) == Event("fallback", i, FALSE, ctx, NoResult, NoResult)

Returned(i, called_next, result, value) ==
    Event("return", i, called_next, NoContext, result, value)

\* resolve: chained_run(context, Arc::new(stack), 0).await is its value.
resolve_await(chain_result) == chain_result

Resolve(method, path) ==
    /\ pc = "idle"
    /\ request' = [method |-> method, path |-> path]
    /\ LET ctx   == generate_context(method, path)
           stack == get_middleware_stack(app, ctx.method, ctx.path)
           r     == chained_run(ctx, stack, 0)
       IN  /\ nodes' = stack
           /\ IF r.invoke
              THEN /\ pc' = "handler"
                   /\ depth' = 1
                   /\ context' = r.context
                   /\ ret' = NoResult
                   /\ log' = <<Invoked(0)>>
              ELSE /\ pc' = "done"
                   /\ depth' = 0
                   /\ context' = NoContext
                   /\ ret' = resolve_await(r.result)
                   /\ log' = <<Fallback(0, ctx)>>
    /\ UNCHANGED <<other, app, regs, last>>

\* The handler on top of the call stack calls next(ctx): chained_run(.., i + 1).
HandlerCallsNext ==
    /\ pc = "handler"
    /\ \E ctx \in ContinueEdits(context) :
          LET r == chained_run(ctx, nodes, depth)
          IN  IF r.invoke
              THEN /\ pc' = "handler"
                   /\ depth' = depth + 1
                   /\ context' = r.context
                   /\ ret' = NoResult
                   /\ log' = log \o <<Continued(depth - 1), Invoked(depth)>>
              ELSE /\ pc' = "resumed"
                   /\ depth' = depth
                   /\ context' = NoContext
                   /\ ret' = r.result
                   /\ log' = log \o <<Continued(depth - 1), Fallback(depth, ctx)>>
    /\ UNCHANGED <<other, app, regs, last, request, nodes>>

\* Mutant: when a handler returns Ok without having called next, the chain
\* goes on to the next entry all the same.
ReturnFallsThrough(called_next, result) ==
    IF ~called_next /\ result.ok
    THEN LET r == chained_run(result.context, nodes, depth)
         IN  /\ IF r.invoke
                THEN /\ pc' = "handler"
                     /\ depth' = depth + 1
                     /\ context' = r.context
                     /\ ret' = NoResult
                     /\ log' = log \o <<Returned(depth - 1, FALSE, result, result),
                                        Invoked(depth)>>
                ELSE /\ pc' = "resumed"
                     /\ depth' = depth
                     /\ context' = NoContext
                     /\ ret' = r.result
                     /\ log' = log \o <<Returned(depth - 1, FALSE, result, result),
                                        Fallback(depth, result.context)>>
             /\ UNCHANGED <<other, app, regs, last, request, nodes>>
    ELSE /\ log' = Append(log, Returned(depth - 1, called_next, result, result))
         /\ depth' = depth - 1
         /\ context' = NoContext
         /\ IF depth = 1
            THEN pc' = "done" /\ ret' = result
            ELSE pc' = "resumed" /\ ret' = result
         /\ UNCHANGED <<other, app, regs, last, request, nodes>>

\* Handler depth - 1 returns result; chained_run(.., depth - 1) returns with it,
\* to the handler below or, from index 0, to resolve.
Return(called_next, result) ==
    LET value == run_middleware_await(result)
    IN  /\ log' = Append(log, Returned(depth - 1, called_next, result, value))
        /\ depth' = depth - 1
        /\ context' = NoContext
        /\ IF depth = 1
           THEN pc' = "done" /\ ret' = resolve_await(value)
           ELSE pc' = "resumed" /\ ret' = value
        /\ UNCHANGED <<other, app, regs, last, request, nodes>>

HandlerReturns ==
    /\ pc = "handler"
    /\ \E result \in DirectResults(context) : Return(FALSE, result)

\* Mutant: the continuation can be used again, so that a handler that has its
\* result may call next once more instead of returning.
HandlerResumesOrContinues ==
    /\ pc = "resumed"
    /\ \/ \E result \in ResumedResults(ret) : Return(TRUE, result)
       \/ /\ ret.ok
          /\ LET r == chained_run(ret.context, nodes, depth)
             IN  IF r.invoke
                 THEN /\ pc' = "handler"
                      /\ depth' = depth + 1
                      /\ context' = r.context
                      /\ ret' = NoResult
                      /\ log' = log \o <<Continued(depth - 1), Invoked(depth)>>
                 ELSE /\ pc' = "resumed"
                      /\ depth' = depth
                      /\ context' = NoContext
                      /\ ret' = r.result
                      /\ log' = log \o <<Continued(depth - 1),
                                         Fallback(depth, ret.context)>>
          /\ UNCHANGED <<other, app, regs, last, request, nodes>>

HandlerResumes ==
    /\ pc = "resumed"
    /\ \E result \in ResumedResults(ret) : Return(TRUE, result)

\* The caller of resolve takes the Result; the future is dropped.
Finish ==
    /\ pc = "done"
    /\ pc' = "idle"
    /\ request' = NoRequest
    /\ nodes' = <<>>
    /\ depth' = 0
    /\ context' = NoContext
    /\ ret' = NoResult
    /\ log' = <<>>
    /\ UNCHANGED <<other, app, regs, last>>

\* Mutant: the context stays with the executor instead of with its future, so
\* that the future polled next goes on with the context of the other one.
SwitchSharingContext ==
    /\ other' = [request |-> request, pc |-> pc, nodes |-> nodes,
                 depth |-> depth, context |-> other.context, ret |-> ret,
                 log |-> log]
    /\ request' = other.request
    /\ pc' = other.pc
    /\ nodes' = other.nodes
    /\ depth' = other.depth
    /\ ret' = other.ret
    /\ log' = other.log
    /\ UNCHANGED <<context, app, regs, last>>

\* resolve takes &self and returns a future: the host may hold two of them
\* and poll now one, now the other. Each future owns its context, its nodes
\* and its call stack; switching moves nothing between them.
Switch ==
    /\ other' = [request |-> request, pc |-> pc, nodes |-> nodes,
                 depth |-> depth, context |-> context, ret |-> ret,
                 log |-> log]
    /\ request' = other.request
    /\ pc' = other.pc
    /\ nodes' = other.nodes
    /\ depth' = other.depth
    /\ context' = other.context
    /\ ret' = other.ret
    /\ log' = other.log
    /\ UNCHANGED <<app, regs, last>>

----------------------------------------------------------------------------
(* Specifications                                                          *)

SetupNext ==
    \/ \E p \in RoutePaths, hs \in HandlerLists : CallGet(p, hs)
    \/ \E p \in RoutePaths, hs \in HandlerLists : CallPost(p, hs)
    \/ \E p \in RoutePaths, hs \in HandlerLists : CallPut(p, hs)
    \/ \E p \in RoutePaths, hs \in HandlerLists : CallDelete(p, hs)
    \/ \E p \in RoutePaths, hs \in HandlerLists : CallHead(p, hs)
    \/ \E p \in RoutePaths, hs \in HandlerLists : CallOptions(p, hs)
    \/ \E p \in RoutePaths, hs \in HandlerLists : CallConnect(p, hs)
    \/ \E p \in RoutePaths, hs \in HandlerLists : CallPatch(p, hs)
    \/ \E p \in RoutePaths, hs \in HandlerLists : CallTrace(p, hs)
    \/ \E p \in RoutePaths, hs \in HandlerLists : CallUseMiddleware(p, hs)
    \/ \E f \in ErrorHandlers : CallSetErrorHandler(f)
    \/ CallRemoveErrorHandler

DispatchNext ==
    \/ \E m \in HttpMethod, p \in RequestPaths : Resolve(m, p)
    \/ HandlerCallsNext
    \/ HandlerReturns
    \/ HandlerResumes
    \/ Finish

\* Setup and dispatch: the App is set up, requests are resolved one at a time.
Next ==
    \/ SetupNext
    \/ \E b \in MountPaths, sub \in SubApps : CallUseSubApp(b, sub)
    \/ DispatchNext

Spec == Init /\ [][Next]_vars

\* Setup alone, with every base path use_sub_app may be given.
NextSetup ==
    \/ SetupNext
    \/ \E b \in BasePaths, sub \in SubApps : CallUseSubApp(b, sub)

SpecSetup == Init /\ [][NextSetup]_vars

\* Requests of two methods a host resolves concurrently.
ConcurrentMethods == {"Get", "Post"}

\* Two resolve futures in flight on one App, polled in any interleaving.
NextConcurrent ==
    \/ \E p \in RoutePaths : CallGet(p, <<1>>)
    \/ \E p \in RoutePaths : CallUseMiddleware(p, <<1>>)
    \/ \E f \in ErrorHandlers : CallSetErrorHandler(f)
    \/ \E m \in ConcurrentMethods, p \in RequestPaths : Resolve(m, p)
    \/ HandlerCallsNext
    \/ HandlerReturns
    \/ HandlerResumes
    \/ Finish
    \/ Switch

SpecConcurrent == Init /\ [][NextConcurrent]_vars

\* Setup and dispatch with handlers that terminate: a handler that was invoked
\* comes to call next or to return, and one that got its result from next
\* comes to return. Nothing makes the host call resolve or take its result.
\* Every step of a handler adds an event, so it moves walk_position.
walk_position == <<pc, depth, Len(log)>>

\* The setup calls that give a request's walk its shapes: routes, blanket
\* middleware and mounted entries, in any order.
NextLive ==
    \/ \E p \in RoutePaths, hs \in HandlerLists : CallGet(p, hs)
    \/ \E p \in RoutePaths, hs \in HandlerLists : CallUseMiddleware(p, hs)
    \/ \E b \in MountPaths, sub \in SubApps : CallUseSubApp(b, sub)
    \/ DispatchNext

SpecLive ==
    /\ Init
    /\ [][NextLive]_vars
    /\ WF_walk_position(HandlerCallsNext \/ HandlerReturns)
    /\ WF_walk_position(HandlerResumes)

----------------------------------------------------------------------------
(* Vocabulary of the properties                                            *)

\* The sequence of method m in App a.
SeqOf(a, m) ==
    CASE m = "Get"     -> a.get_stack
      [] m = "Post"    -> a.post_stack
      [] m = "Put"     -> a.put_stack
      [] m = "Delete"  -> a.delete_stack
      [] m = "Head"    -> a.head_stack
      [] m = "Options" -> a.options_stack
      [] m = "Connect" -> a.connect_stack
      [] m = "Patch"   -> a.patch_stack
      [] m = "Trace"   -> a.trace_stack

\* The sub-sequence of seq whose pattern matches path, in the same order.
MatchingSub(seq, path) ==
    LET Matches(e) == PatternMatches(e.mounted_url, path)
    IN  SelectSeq(seq, Matches)

\* The entries one registration call makes from its handlers, in their order.
NewEntries(path, middlewares, is_endpoint) ==
    [k \in 1..Len(middlewares) |->
        [mounted_url |-> path, handler |-> middlewares[k],
         is_endpoint |-> is_endpoint]]

\* What follows the first n elements of seq.
After(seq, n) == SubSeq(seq, n + 1, Len(seq))

IsInvoke(e) == e.ev = "invoke"

\* The indices of the handlers invoked so far, in the order of invocation.
InvokedSoFar == SelectSeq(log, IsInvoke)

InOrder ==
    /\ \A k \in 1..Len(InvokedSoFar) : InvokedSoFar[k].i = k - 1
    /\ \A k \in 1..Len(log) :
          (log[k].ev = "invoke" /\ log[k].i > 0)
              => (k > 1 /\ log[k - 1] = Continued(log[k].i - 1))

PerMethodOps == {"get", "post", "put", "delete", "head", "options", "connect",
                 "patch", "trace"}

----------------------------------------------------------------------------
(* C1: stable dispatch order. The list a dispatch walks is exactly the     *)
(* sub-sequence of the request method's sequence whose pattern matches the *)
(* request path, in registration order, and handler k is invoked only      *)
(* after handlers 0..k-1 were invoked and each called its continuation.    *)

C1_StableOrder ==
    pc # "idle" =>
        /\ nodes = MatchingSub(SeqOf(app, request.method), request.path)
        /\ InOrder
        /\ pc = "handler" => Len(InvokedSoFar) = depth /\ depth <= Len(nodes)

\* The second handler of a dispatch is running, the sequence was built by a
\* registration and a mount, and an entry that does not match lies between
\* two that do.
C1_Witness ==
    /\ pc = "handler"
    /\ depth = 2
    /\ last.op = "use_sub_app"
    /\ LET seq == SeqOf(app, request.method)
       IN  \E a, b, c \in 1..Len(seq) :
              /\ a < b /\ b < c
              /\ PatternMatches(seq[a].mounted_url, request.path)
              /\ ~PatternMatches(seq[b].mounted_url, request.path)
              /\ PatternMatches(seq[c].mounted_url, request.path)
              /\ nodes = <<seq[a], seq[c]>>

----------------------------------------------------------------------------
(* C2: not found. When no entry of the method's sequence matches the path, *)
(* resolve invokes no handler and returns Ok with status 404 and the body  *)
(* "Cannot " + method + " route " + path.                                  *)

C2_NotFound ==
    (/\ pc = "done"
     /\ \A k \in 1..Len(SeqOf(app, request.method)) :
           ~PatternMatches(SeqOf(app, request.method)[k].mounted_url, request.path))
    => /\ ret.ok
       /\ ret.context.status = 404
       /\ ret.context.body =
             <<"C", "a", "n", "n", "o", "t", " ">>
                 \o method_to_string(request.method)
                 \o <<" ", "r", "o", "u", "t", "e", " ">>
                 \o request.path
       /\ \A k \in 1..Len(log) : log[k].ev # "invoke"

\* A POST of "/y" was resolved against a POST sequence that has entries, none
\* of which matches.
C2_Witness ==
    /\ pc = "done"
    /\ request = [method |-> "Post", path |-> Str_y]
    /\ Len(app.post_stack) > 0
    /\ \A k \in 1..Len(app.post_stack) :
          ~PatternMatches(app.post_stack[k].mounted_url, Str_y)
    /\ ret.ok
    /\ ret.context.body =
          <<"C", "a", "n", "n", "o", "t", " ", "P", "O", "S", "T", " ",
            "r", "o", "u", "t", "e", " ", "/", "y">>

----------------------------------------------------------------------------
(* C3: short-circuit. Once the handler at index i has returned without     *)
(* calling its continuation, no entry after i has been or is ever invoked  *)
(* and the not-found fallback is not applied; so a use_middleware entry    *)
(* registered before a route for the same path that does not continue      *)
(* keeps the route's handler from running.                                 *)

C3_ShortCircuit ==
    \A k \in 1..Len(log) :
        (log[k].ev = "return" /\ ~log[k].called_next)
        => /\ \A j \in 1..Len(log) :
                 /\ log[j].ev = "invoke" => log[j].i <= log[k].i
                 /\ log[j].ev # "fallback"
           /\ (pc = "done" /\ ret.ok) => ret.context.status # 404

\* A use_middleware entry registered before a route for the same path was
\* invoked and returned without continuing; the dispatch is over.
C3_Witness ==
    /\ pc = "done"
    /\ Len(nodes) = 2
    /\ ~nodes[1].is_endpoint
    /\ nodes[2].is_endpoint
    /\ nodes[1].mounted_url = nodes[2].mounted_url
    /\ Len(log) = 2
    /\ log[2].ev = "return" /\ log[2].i = 0 /\ ~log[2].called_next
    /\ ret.ok

----------------------------------------------------------------------------
(* C4: failure propagation. chained_run(.., i) returns exactly what        *)
(* handler i returned, resolve returns exactly what handler 0 returned,    *)
(* no entry and no fallback runs after a handler has returned a failure,   *)
(* and a failure is not replaced by the not-found response.                *)

C4_FailurePropagation ==
    /\ \A k \in 1..Len(log) :
          log[k].ev = "return"
          => /\ log[k].value = log[k].result
             /\ ~log[k].result.ok
                   => \A j \in (k + 1)..Len(log) :
                          log[j].ev \notin {"invoke", "next", "fallback"}
    /\ (pc = "resumed" /\ log[Len(log)].ev = "return")
          => log[Len(log)].i = depth /\ ret = log[Len(log)].result
    /\ (pc = "done" /\ log[Len(log)].ev = "return")
          => log[Len(log)].i = 0 /\ ret = log[Len(log)].result

\* The second handler of a chain failed, the first handed the failure on, and
\* resolve returned it.
C4_Witness ==
    /\ pc = "done"
    /\ ret = Err("e1")
    /\ Len(nodes) >= 2
    /\ Len(log) = 5
    /\ log[4] = Returned(1, FALSE, Err("e1"), Err("e1"))
    /\ log[5] = Returned(0, TRUE, Err("e1"), Err("e1"))

----------------------------------------------------------------------------
(* C5: capture injection. Whenever a handler is invoked and its entry's    *)
(* pattern matches the context's current path, the parameters hold, for    *)
(* every capture name of the pattern, the segment of the path at that      *)
(* capture, whatever was there under that name before.                     *)

C5_CaptureInjection ==
    pc = "handler" =>
        LET spec == nodes[depth].mounted_url
            ps   == Segments(spec)
            ss   == Segments(context.path)
        IN  /\ PatternMatches(spec, context.path)
               => \A k \in 1..Len(ps) :
                     (Len(ps[k]) > 1 /\ ps[k][1] = ":")
                     => /\ Tail(ps[k]) \in DOMAIN context.params
                        /\ context.params[Tail(ps[k])] = ss[k]
            /\ (spec = <<"/", "a", "/", ":", "i">> /\ context.path = Str_ax)
               => context.params[<<"i">>] = <<"x">>

\* "/:i" mounted at "a" is "/a/:i"; its second handler runs on "/a/x" with
\* i -> "x".
C5_Witness ==
    /\ pc = "handler"
    /\ depth = 2
    /\ nodes[2].mounted_url = <<"/", "a", "/", ":", "i">>
    /\ context.path = Str_ax
    /\ DOMAIN context.params = {<<"i">>}
    /\ context.params[<<"i">>] = <<"x">>

----------------------------------------------------------------------------
(* C6: GET is mirrored into TRACE. get(path, handlers) appends one         *)
(* endpoint entry per handler, in order, to the GET and to the TRACE       *)
(* sequence and leaves the other seven alone, so that the route is walked  *)
(* by a GET and by a TRACE of a matching path; trace(path, handlers)       *)
(* appends to the TRACE sequence only.                                     *)

C6_GetMirrorsTrace ==
    LET es == NewEntries(last.path, last.middlewares, TRUE)
    IN  /\ last.op = "get"
           => /\ app.get_stack = last.before.get_stack \o es
              /\ app.trace_stack = last.before.trace_stack \o es
              /\ \A m \in HttpMethod \ {"Get", "Trace"} :
                    SeqOf(app, m) = SeqOf(last.before, m)
              /\ (/\ pc # "idle"
                  /\ request.method \in {"Get", "Trace"}
                  /\ PatternMatches(last.path, request.path))
                 => /\ Len(nodes) >= Len(es)
                    /\ After(nodes, Len(nodes) - Len(es)) = es
        /\ last.op = "trace"
           => /\ app.trace_stack = last.before.trace_stack \o es
              /\ \A m \in HttpMethod \ {"Trace"} :
                    SeqOf(app, m) = SeqOf(last.before, m)

\* After trace and then get with two handlers, a TRACE request runs the second
\* of the handlers that get registered.
C6_Witness ==
    /\ last.op = "get"
    /\ Len(last.middlewares) = 2
    /\ Len(last.before.trace_stack) > 0
    /\ last.before.get_stack = <<>>
    /\ request.method = "Trace"
    /\ pc = "handler"
    /\ depth = Len(nodes)
    /\ nodes[depth] = [mounted_url |-> last.path, handler |-> 2,
                       is_endpoint |-> TRUE]

----------------------------------------------------------------------------
(* C7: blanket middleware. use_middleware(path, handlers) appends to each  *)
(* of the nine sequences one entry per handler with is_endpoint = FALSE,   *)
(* in the order of the handlers, so all nine grow by the same entries.     *)

C7_BlanketMiddleware ==
    last.op = "use_middleware"
    => \A m \in HttpMethod :
          /\ SeqOf(app, m) =
                SeqOf(last.before, m) \o NewEntries(last.path, last.middlewares, FALSE)
          /\ Len(SeqOf(app, m)) = Len(SeqOf(last.before, m)) + Len(last.middlewares)

\* use_middleware with two handlers on an App whose sequences differed.
C7_Witness ==
    /\ last.op = "use_middleware"
    /\ Len(last.middlewares) = 2
    /\ Len(last.before.post_stack) = 2
    /\ last.before.get_stack = <<>>
    /\ Len(app.trace_stack) = 2
    /\ app.trace_stack[2] = [mounted_url |-> last.path, handler |-> 2,
                             is_endpoint |-> FALSE]

----------------------------------------------------------------------------
(* C8: base-path normalization. The base that use_sub_app prefixes is ""   *)
(* when the base path is "/", and otherwise the base path with a trailing  *)
(* "/" stripped if present and a leading "/" prepended if absent, both     *)
(* adjustments together ("api/" gives "/api").                             *)

NormalizedBase(base_path) ==
    IF base_path = <<"/">>
    THEN <<>>
    ELSE LET stripped == IF Len(base_path) > 0 /\ base_path[Len(base_path)] = "/"
                         THEN SubSeq(base_path, 1, Len(base_path) - 1)
                         ELSE base_path
         IN  IF Len(base_path) > 0 /\ base_path[1] = "/"
             THEN stripped
             ELSE <<"/">> \o stripped

C8_BaseNormalization ==
    last.op = "use_sub_app"
    => \A m \in HttpMethod :
          LET before == SeqOf(last.before, m)
              sub    == SeqOf(last.sub_app, m)
              after  == SeqOf(app, m)
          IN  \A k \in 1..Len(sub) :
                 after[Len(before) + k].mounted_url =
                    NormalizedBase(last.base_path) \o sub[k].mounted_url

----------------------------------------------------------------------------
(* C9: mount rewriting. use_sub_app gives every merged entry the path spec *)
(* (normalized base) + (its spec in the sub-application) and carries its   *)
(* handler and is_endpoint over; "/x" mounted at "a" is "/a/x", at "/" is  *)
(* "/x" and at "/a/" is "/a/x".                                            *)

----------------------------------------------------------------------------
(* C10: mount ordering. After use_sub_app every sequence of the parent is  *)
(* what it was, followed by as many entries as the sub-application's       *)
(* sequence of the same method has, in that order; so a dispatch walks     *)
(* the matching entries registered before a call ahead of those the call   *)
(* added, mounted entries after older ones and before newer ones.          *)

C10_MountOrdering ==
    /\ last.op = "use_sub_app"
       => \A m \in HttpMethod :
             LET before == SeqOf(last.before, m)
                 sub    == SeqOf(last.sub_app, m)
                 after  == SeqOf(app, m)
             IN  /\ Len(after) = Len(before) + Len(sub)
                 /\ SubSeq(after, 1, Len(before)) = before
                 /\ \A k \in 1..Len(sub) :
                       /\ after[Len(before) + k].handler = sub[k].handler
                       /\ after[Len(before) + k].is_endpoint = sub[k].is_endpoint
    /\ (last.op \in PerMethodOps \cup {"use_middleware", "use_sub_app"} /\ pc # "idle")
       => LET before == SeqOf(last.before, request.method)
              after  == SeqOf(app, request.method)
          IN  /\ Len(before) <= Len(after)
              /\ nodes = MatchingSub(before, request.path)
                            \o MatchingSub(After(after, Len(before)), request.path)
              /\ InOrder

\* A parent with a route mounted a sub-application; a dispatch ran the
\* parent's matching entry and now runs a mounted one.
C10_Witness ==
    /\ last.op = "use_sub_app"
    /\ pc = "handler"
    /\ depth = 2
    /\ Len(MatchingSub(SeqOf(last.before, request.method), request.path)) = 1
    /\ Len(nodes) >= 2
    /\ nodes[2].handler = SeqOf(last.sub_app, request.method)[1].handler
    /\ last.base_path = <<"a">>

----------------------------------------------------------------------------
(* C11: append-only route table. Across every registration call (the nine  *)
(* per-method operations, use_middleware, use_sub_app) each of the nine    *)
(* sequences before the call is a prefix of the sequence after it: nothing *)
(* is removed, reordered or rewritten; and no step of any kind shrinks a   *)
(* sequence.                                                               *)

IsPrefix(s, t) == Len(s) <= Len(t) /\ SubSeq(t, 1, Len(s)) = s

RegistrationOps == PerMethodOps \cup {"use_middleware", "use_sub_app"}

C11_AppendOnly ==
    /\ last.op \in RegistrationOps
       => \A m \in HttpMethod : IsPrefix(SeqOf(last.before, m), SeqOf(app, m))
    /\ last.op # "create"
       => \A m \in HttpMethod : Len(SeqOf(last.before, m)) <= Len(SeqOf(app, m))

\* A registration and a mount each grew a sequence that already had entries.
C11_Witness ==
    /\ last.op = "use_sub_app"
    /\ last.before.get_stack # <<>>
    /\ Len(app.get_stack) > Len(last.before.get_stack)
    /\ Len(app.post_stack) > Len(last.before.post_stack)
    /\ last.before.post_stack # <<>>

----------------------------------------------------------------------------
(* C12: per-method registration frame. Each of post, put, delete, head,    *)
(* options, connect, patch and trace appends one endpoint entry per        *)
(* handler, in the given order and with the given path, to the sequence of *)
(* its own method and leaves the other eight sequences, the state and the  *)
(* error hook as they were; so a dispatch under another method walks       *)
(* exactly what it would have walked without the registration (and a get   *)
(* registration shows under GET and TRACE only).                           *)

OwnMethod(op) ==
    CASE op = "get"     -> "Get"
      [] op = "post"    -> "Post"
      [] op = "put"     -> "Put"
      [] op = "delete"  -> "Delete"
      [] op = "head"    -> "Head"
      [] op = "options" -> "Options"
      [] op = "connect" -> "Connect"
      [] op = "patch"   -> "Patch"
      [] op = "trace"   -> "Trace"

C12_PerMethodFrame ==
    /\ last.op \in PerMethodOps \ {"get"}
       => /\ SeqOf(app, OwnMethod(last.op))
                = SeqOf(last.before, OwnMethod(last.op))
                     \o NewEntries(last.path, last.middlewares, TRUE)
          /\ \A m \in HttpMethod \ {OwnMethod(last.op)} :
                SeqOf(app, m) = SeqOf(last.before, m)
          /\ app.state = last.before.state
          /\ app.error_handler = last.before.error_handler
    /\ (/\ pc # "idle"
        /\ last.op \in PerMethodOps
        /\ request.method # OwnMethod(last.op)
        /\ ~(last.op = "get" /\ request.method = "Trace"))
       => nodes = MatchingSub(SeqOf(last.before, request.method), request.path)

\* post registered two handlers for a path after a blanket middleware; the GET
\* of that path runs the middleware's handler and has nothing else to walk.
C12_Witness ==
    /\ last.op = "post"
    /\ Len(last.middlewares) = 2
    /\ last.before.post_stack # <<>>
    /\ pc = "handler"
    /\ request.method = "Get"
    /\ PatternMatches(last.path, request.path)
    /\ Len(nodes) = 1
    /\ Len(MatchingSub(app.post_stack, request.path)) = 3

----------------------------------------------------------------------------
(* C13: parameter scoping. When the handler of entry i of the walked list  *)
(* is invoked, the parameters hold exactly what entry i's own pattern      *)
(* captures from the context's current path: every name is a capture name  *)
(* of that pattern and holds the segment at that capture. What was         *)
(* injected for an earlier entry, or written by an earlier handler, under  *)
(* any other name is gone; a pattern without captures, or one that does    *)
(* not match, leaves the parameters empty.                                 *)

\* The positions of pattern spec that are captures.
CapturePositions(spec) ==
    {k \in 1..Len(Segments(spec)) :
        Len(Segments(spec)[k]) > 1 /\ Segments(spec)[k][1] = ":"}

C13_ParamScoping ==
    pc = "handler" =>
        LET spec == nodes[depth].mounted_url
            ps   == Segments(spec)
            ss   == Segments(context.path)
        IN  IF PatternMatches(spec, context.path)
            THEN /\ DOMAIN context.params
                       = {Tail(ps[k]) : k \in CapturePositions(spec)}
                 /\ \A k \in CapturePositions(spec) :
                       context.params[Tail(ps[k])] = ss[k]
            ELSE context.params = EmptyParams

\* The first entry walked captured i from the path; the second one captures
\* nothing and its handler is invoked with no parameters.
C13_Witness ==
    /\ pc = "handler"
    /\ depth = 2
    /\ nodes[1].mounted_url = Str_i
    /\ nodes[2].mounted_url = Str_x
    /\ context.path = Str_x
    /\ request.path = Str_x
    /\ context.params = EmptyParams

----------------------------------------------------------------------------
(* C14: exhaustion fallback. In a dispatch that walks a non-empty list,    *)
(* the fallback runs only at the index past the last entry, after every    *)
(* entry's handler was invoked, directly upon the last handler's call of   *)
(* its continuation, and at most once; that call is always answered by the *)
(* fallback. It returns Ok to the last handler with the context it was     *)
(* handed, status 404 and body "Cannot " + method + " route " + path in    *)
(* place of whatever status and body the context carried.                  *)

FallbackEvents == {k \in 1..Len(log) : log[k].ev = "fallback"}

C14_ExhaustionFallback ==
    Len(nodes) > 0 =>
        /\ Cardinality(FallbackEvents) <= 1
        /\ \A k \in FallbackEvents :
              /\ log[k].i = Len(nodes)
              /\ k > 1
              /\ log[k - 1].ev = "next" /\ log[k - 1].i = Len(nodes) - 1
              /\ {log[j].i : j \in {j \in 1..(k - 1) : log[j].ev = "invoke"}}
                    = 0..(Len(nodes) - 1)
        /\ \A k \in 1..Len(log) :
              (log[k].ev = "next" /\ log[k].i = Len(nodes) - 1)
              => k < Len(log) /\ log[k + 1].ev = "fallback"
        /\ (log # <<>> /\ log[Len(log)].ev = "fallback")
           => LET ctx == log[Len(log)].context
              IN  /\ pc = "resumed"
                  /\ depth = Len(nodes)
                  /\ ret.ok
                  /\ ret.context =
                        [ctx EXCEPT
                            !.status = 404,
                            !.body = <<"C", "a", "n", "n", "o", "t", " ">>
                                        \o method_to_string(ctx.method)
                                        \o <<" ", "r", "o", "u", "t", "e", " ">>
                                        \o ctx.path]

\* Two handlers were walked; the second one had set status 200 and a body
\* when it continued, and was handed back the not-found response.
C14_Witness ==
    /\ Len(nodes) = 2
    /\ pc = "resumed"
    /\ depth = 2
    /\ log[Len(log)].ev = "fallback"
    /\ log[Len(log)].context.status = 200
    /\ log[Len(log)].context.body = Str_ok
    /\ ret.ok
    /\ ret.context.status = 404
    /\ ret.context.body # Str_ok

----------------------------------------------------------------------------
(* C15: single terminal outcome and termination. With handlers that        *)
(* terminate and use their continuation at most once, a chain walk that    *)
(* has started comes to its end, and ends with exactly one outcome: Ok     *)
(* with a context, or Err. Each call of a continuation moves the walk from *)
(* index i to index i + 1, no entry is invoked twice, and a dispatch makes *)
(* at most as many handler invocations as the walked list is long, plus at *)
(* most one run of the fallback.                                           *)

IsOutcome(r) ==
    \/ r.ok /\ DOMAIN r = {"ok", "context"}
    \/ ~r.ok /\ DOMAIN r = {"ok", "error"}

WalkBounded ==
    /\ \A j, k \in 1..Len(log) :
          (log[j].ev = "invoke" /\ log[k].ev = "invoke" /\ j # k)
          => log[j].i # log[k].i
    /\ \A k \in 1..Len(log) :
          log[k].ev = "invoke" => log[k].i < Len(nodes)
    /\ Len(InvokedSoFar) <= Len(nodes)
    /\ Cardinality({k \in 1..Len(log) : log[k].ev = "fallback"}) <= 1
    /\ \A k \in 1..Len(log) :
          log[k].ev = "next"
          => /\ k > 1 /\ k < Len(log)
             /\ log[k + 1].ev \in {"invoke", "fallback"}
             /\ log[k + 1].i = log[k].i + 1
             /\ \E j \in 1..(k - 1) : log[j].ev = "invoke" /\ log[j].i = log[k].i
    /\ pc = "done"
       => /\ IsOutcome(ret)
          /\ Cardinality({k \in 1..Len(log) :
                             log[k].ev = "return" /\ log[k].i = 0})
                = IF nodes = <<>> THEN 0 ELSE 1
          /\ nodes # <<>> => /\ log[Len(log)].ev = "return"
                             /\ log[Len(log)].i = 0
                             /\ ret = log[Len(log)].value
    /\ pc \in {"handler", "resumed"} => depth \in 1..Len(nodes)

C15_Termination ==
    /\ [](pc # "idle" => WalkBounded)
    /\ (pc \in {"handler", "resumed"}) ~> (pc = "done")

\* A walk of two entries ended: both were invoked, both continued, the
\* fallback ran, and resolve has its one result.
C15_Witness ==
    /\ pc = "done"
    /\ Len(nodes) = 2
    /\ Len(InvokedSoFar) = 2
    /\ Cardinality({k \in 1..Len(log) : log[k].ev = "fallback"}) = 1
    /\ Cardinality({k \in 1..Len(log) : log[k].ev = "return"}) = 2
    /\ IsOutcome(ret)

----------------------------------------------------------------------------
(* C16: independent concurrent dispatches. With two resolve futures in     *)
(* flight on one App and polled in any interleaving: no step taken while a *)
(* future is in flight changes the App (nine sequences, state, error       *)
(* hook); a step of the future being polled leaves the other future, its   *)
(* context included, exactly as it was, and switching between them changes *)
(* neither; and each future walks the list its own request selects, in     *)
(* order, on a context of its own request (with the method the request    *)
(* came with or the one a handler gave it), to an outcome that the same    *)
(* request has when it is resolved alone.                                  *)

\* The future being polled, as a record like other.
Polled == [request |-> request, pc |-> pc, nodes |-> nodes, depth |-> depth,
           context |-> context, ret |-> ret, log |-> log]

\* The results chained_run(ctx, stack, i) can have when nothing else runs:
\* handler i returns directly, or continues with an edited context and
\* returns once the rest of the walk has returned to it.
RECURSIVE AloneResults(_, _, _)
AloneResults(ctx, stack, i) ==
    IF i >= Len(stack)
    THEN {Ok([ctx EXCEPT !.status = 404,
                         !.body = <<"C", "a", "n", "n", "o", "t", " ">>
                                     \o method_to_string(ctx.method)
                                     \o <<" ", "r", "o", "u", "t", "e", " ">>
                                     \o ctx.path])}
    ELSE LET c == [ctx EXCEPT !.params = url_params(stack[i + 1], ctx.path)]
         IN  DirectResults(c)
             \cup UNION {ResumedResults(r) :
                            r \in UNION {AloneResults(e, stack, i + 1) :
                                            e \in ContinueEdits(c)}}

AloneOutcomes(a, req) ==
    AloneResults(generate_context(req.method, req.path),
                 MatchingSub(SeqOf(a, req.method), req.path), 0)

WalksAlone(w) ==
    w.pc # "idle" =>
        /\ w.nodes = MatchingSub(SeqOf(app, w.request.method), w.request.path)
        /\ LET inv == SelectSeq(w.log, IsInvoke)
           IN  /\ \A k \in 1..Len(inv) : inv[k].i = k - 1
               /\ w.pc = "handler" => Len(inv) = w.depth
        /\ w.pc = "handler"
           => w.context.method \in {w.request.method, RewriteMethod}
        /\ \A k \in 1..Len(w.log) :
              w.log[k].ev = "fallback"
              => w.log[k].context.method \in {w.request.method, RewriteMethod}
        /\ w.pc = "done" => w.ret \in AloneOutcomes(app, w.request)

InFlight(w) == w.pc # "idle"

C16_IndependentDispatches ==
    /\ [][/\ (InFlight(Polled) \/ InFlight(other)
                 \/ InFlight(Polled)' \/ InFlight(other)') => app' = app
          /\ \/ other' = other
             \/ other' = Polled /\ Polled' = other]_vars
    /\ [](WalksAlone(Polled) /\ WalksAlone(other))

\* A GET and a POST of different paths are both in the middle of their
\* walks, each with a context of its own.
C16_Witness ==
    /\ pc = "handler"
    /\ depth = 2
    /\ other.pc = "resumed"
    /\ other.depth = 1
    /\ request.method = "Get"
    /\ other.request.method = "Post"
    /\ request.path # other.request.path
    /\ context.method = "Get"
    /\ other.ret.ok
    /\ other.ret.context.method = "Post"

----------------------------------------------------------------------------
(* C17: error hook state. A new App has no error hook. After               *)
(* set_error_handler(f) the hook is f; after remove_error_handler there is *)
(* none; every registration call and use_sub_app leave the hook and the    *)
(* state as they were, whatever hook and state the sub-application has;    *)
(* and a dispatch neither changes the hook nor calls it: all through the   *)
(* dispatch the hook is what the last setup call left, and a failure comes *)
(* out of resolve as the first handler returned it, hook or no hook.       *)

C17_ErrorHook ==
    /\ last.op = "create" => app.error_handler = None
    /\ last.op = "set_error_handler"
       => /\ app.error_handler = last.error_handler
          /\ app.error_handler \in ErrorHandlers
    /\ last.op = "remove_error_handler" => app.error_handler = None
    /\ last.op \in RegistrationOps
       => /\ app.error_handler = last.before.error_handler
          /\ app.state = last.before.state
    /\ (pc = "done" /\ nodes # <<>> /\ ~log[Len(log)].result.ok)
       => ret = log[Len(log)].result

\* A parent with hook f1 mounted a sub-application that has hook f2 and a
\* state of its own; a POST then failed in the mounted handler, and resolve
\* returned the failure with the parent's hook still f1.
C17_Witness ==
    /\ last.op = "use_sub_app"
    /\ last.sub_app.error_handler = "f2"
    /\ last.sub_app.state # app.state
    /\ last.before.error_handler = "f1"
    /\ app.error_handler = "f1"
    /\ pc = "done"
    /\ nodes # <<>>
    /\ ~ret.ok

----------------------------------------------------------------------------
(* C18: the chain is fixed when the dispatch starts. The list a dispatch   *)
(* walks is the one selected by the method and path the context had when   *)
(* resolve was called, and stays so when a handler changes the path or the *)
(* method before it continues: the entries that remain are invoked in      *)
(* order, none added and none skipped, the fallback comes only after the   *)
(* last of them, an entry whose pattern does not match the path the        *)
(* context has now is invoked with no parameters, and the not-found body   *)
(* names the method and the path the context has when the list runs out.   *)

C18_ChainFixed ==
    pc # "idle" =>
        /\ nodes = MatchingSub(SeqOf(app, request.method), request.path)
        /\ \A k \in 1..Len(log) :
              /\ log[k].ev = "next"
                 => IF log[k].i + 1 < Len(nodes)
                    THEN log[k + 1].ev = "invoke" /\ log[k + 1].i = log[k].i + 1
                    ELSE log[k + 1].ev = "fallback"
              /\ log[k].ev = "fallback" => log[k].i = Len(nodes)
        /\ pc = "handler"
           => /\ depth = Len(InvokedSoFar)
              /\ InvokedSoFar[depth].i = depth - 1
              /\ ~PatternMatches(nodes[depth].mounted_url, context.path)
                 => context.params = EmptyParams
        /\ (log # <<>> /\ log[Len(log)].ev = "fallback")
           => ret.context.body =
                 <<"C", "a", "n", "n", "o", "t", " ">>
                     \o method_to_string(log[Len(log)].context.method)
                     \o <<" ", "r", "o", "u", "t", "e", " ">>
                     \o log[Len(log)].context.path

\* A GET of "/x" selected two entries; the first handler changed the path to
\* "/y" and the second the method to PUT before continuing: the second entry,
\* "/:i", was run on the new path, and the list ran out on "PUT /y".
C18_Witness ==
    /\ request = [method |-> "Get", path |-> Str_x]
    /\ Len(nodes) = 2
    /\ nodes[1].mounted_url = Str_x
    /\ nodes[2].mounted_url = Str_i
    /\ Len(InvokedSoFar) = 2
    /\ log[Len(log)].ev = "fallback"
    /\ log[Len(log)].context.path = Str_y
    /\ log[Len(log)].context.method = "Put"
    /\ log[Len(log)].context.params = insert(EmptyParams, <<"i">>, <<"y">>)
    /\ ret.context.body =
          <<"C", "a", "n", "n", "o", "t", " ", "P", "U", "T", " ",
            "r", "o", "u", "t", "e", " ", "/", "y">>

=============================================================================
